---- MODULE Spec2Model ----
(***************************************************************************)
(* Blue Shirt life-simulation demo (src/blueshirt/app.py): the stat engine *)
(* (clamp, apply_action, passive_time_advance, compute_lifestyle_stability,*)
(* get_life_rank, buddy_suggestion), the persistence layer (load_user,     *)
(* save_user), the history log (record_history) and the Streamlit button   *)
(* handlers.                                                               *)
(*                                                                         *)
(* A Python dict is a TLA+ function whose DOMAIN is the set of keys that   *)
(* are present; d.get(k, x) is Get(d, k, x); d[k] = x is Put(d, k, x).     *)
(***************************************************************************)
EXTENDS Integers, Sequences, FiniteSets, TLC

\* ------------------------------------------------------------------------
\* Bounds of the model
\* ------------------------------------------------------------------------

\* Number of button clicks explored in one session.
MaxSteps == 3

\* The engine is exercised on the grid {0, 100/Grid, 2*100/Grid, .., 100}^6.
Grid == 3

\* ------------------------------------------------------------------------
\* Config / Constants
\* ------------------------------------------------------------------------

LO == 0

HI == 100

MISSING_DEFAULT == 50

HISTORY_CAP == 200

STAT_NAMES == {"Sleep", "Energy", "Hunger", "Stress", "Routine", "Social"}

DEFAULT_STATS ==
    [Sleep |-> 80, Energy |-> 80, Hunger |-> 50,
     Stress |-> 20, Routine |-> 70, Social |-> 50]

DAY_PHASES == <<"Morning", "Day", "Evening", "Night">>

BUDDY_MESSAGES ==
    [all_good    |-> "You're balanced today - little nudges keep the momentum. Nice.",
     low_energy  |-> "Low energy detected. A short nap or a gentle walk could help.",
     hungry      |-> "Stomach says hello. A small snack will level you up.",
     high_stress |-> "Breathing break? Two deep breaths and a mini leisure session.",
     low_routine |-> "A tiny checklist today will boost Routine and ease future days.",
     low_social  |-> "Ping a friend or say hi - even a 'hey' helps Social currency.",
     burnout     |-> "You're looking drained. Take a proper rest - screens off, real rest on."]

\* ACTIONS in the source (a reserved word of TLA+).
ACTION_LIST ==
    << [name |-> "Sleep (Nap / Sleep)",
        effects |-> [Sleep |-> 20, Energy |-> 25, Stress |-> -12]],
       [name |-> "Eat (Meal / Snack)",
        effects |-> [Hunger |-> 35, Energy |-> 6, Stress |-> -4]],
       [name |-> "Exercise (Light)",
        effects |-> [Energy |-> -15, Stress |-> -8, Routine |-> 4, Social |-> 1]],
       [name |-> "Socialize",
        effects |-> [Social |-> 18, Stress |-> -6, Routine |-> 2]],
       [name |-> "Study / Work",
        effects |-> [Routine |-> 6, Stress |-> 6, Energy |-> -8]],
       [name |-> "Leisure (Relax)",
        effects |-> [Stress |-> -10, Energy |-> 6, Routine |-> 1]] >>

ActionNames == {ACTION_LIST[i].name : i \in 1..Len(ACTION_LIST)}

\* ------------------------------------------------------------------------
\* Python helpers
\* ------------------------------------------------------------------------

Max(a, b) == IF a >= b THEN a ELSE b

Min(a, b) == IF a <= b THEN a ELSE b

\* dict.get(k, dflt)
Get(d, k, dflt) == IF k \in DOMAIN d THEN d[k] ELSE dflt

\* d[k] = x
Put(d, k, x) == [j \in DOMAIN d \cup {k} |-> IF j = k THEN x ELSE d[j]]

\* lst[:n]
Take(s, n) == IF Len(s) <= n THEN s ELSE SubSeq(s, 1, n)

\* ------------------------------------------------------------------------
\* Utility Functions
\* ------------------------------------------------------------------------

\* Faulty variant: truncation, int(v), instead of int(round(v)).
RoundTrunc(n, d) ==
    IF n >= 0 THEN n \div d ELSE -((-n) \div d)

\* round(n / d) for d > 0 as Python 3 computes it: to the nearest integer,
\* an exact half going to the even neighbour.  (\div is the floor division.)
\* The floats of compute_lifestyle_stability are sum/5.0 - stress*0.5 with
\* 0 <= sum <= 500 and 0 <= stress <= 100; on all of them the float result
\* rounds as the exact rational (2*sum - 5*stress)/10 does: a half arises
\* only when sum/5.0 is an integer, and then the float is exact.
Round(n, d) ==
    LET q == n \div d
        r == n % d
    IN  IF 2 * r < d THEN q
        ELSE IF 2 * r > d THEN q + 1
        ELSE IF q % 2 = 0 THEN q ELSE q + 1

\* Faulty variant: only the lower limit is applied.
clamp_no_upper(v) == Max(LO, v)

\* clamp(v) on an int v: int(round(v)) is v itself, then max(lo, min(hi, .)).
clamp(v) == Max(LO, Min(HI, v))

\* clamp(n / d) on a float: int(round(n / d)), then the limits.
clamp_ratio(n, d) == clamp(Round(n, d))

\* ------------------------------------------------------------------------
\* The stat engine
\* ------------------------------------------------------------------------

\* Faulty variant (the v2 app's calculate_rank): Hunger counted as a penalty.
compute_hunger_inverted(stats) ==
    LET s == [k \in STAT_NAMES |-> clamp(Get(stats, k, MISSING_DEFAULT))]
        positive_sum == s["Sleep"] + s["Energy"] + (HI - s["Hunger"])
                        + s["Routine"] + s["Social"]
    IN  clamp_ratio(2 * positive_sum - 5 * s["Stress"], 10)

\* avg_pos - stress_penalty * 0.5 = (2 * positive_sum - 5 * Stress) / 10.
compute_lifestyle_stability(stats) ==
    LET s == [k \in STAT_NAMES |-> clamp(Get(stats, k, MISSING_DEFAULT))]
        positive_sum == s["Sleep"] + s["Energy"] + s["Hunger"]
                        + s["Routine"] + s["Social"]
        stress_penalty == s["Stress"]
    IN  clamp_ratio(2 * positive_sum - 5 * stress_penalty, 10)

\* Faulty variant: strict comparisons.
get_life_rank_strict(stability) ==
    IF stability > 90 THEN "Balanced"
    ELSE IF stability > 70 THEN "Stable"
    ELSE IF stability > 50 THEN "Unsettled"
    ELSE IF stability > 30 THEN "Strained"
    ELSE "Burned Out"

\* The labels without their leading emoji.
get_life_rank(stability) ==
    IF stability >= 90 THEN "Balanced"
    ELSE IF stability >= 70 THEN "Stable"
    ELSE IF stability >= 50 THEN "Unsettled"
    ELSE IF stability >= 30 THEN "Strained"
    ELSE "Burned Out"

\* next((a for a in ACTIONS if a["name"] == action_name), None): the index
\* of the first entry with that name, 0 for None.
FindAction(action_name) ==
    LET hits == {i \in 1..Len(ACTION_LIST) : ACTION_LIST[i].name = action_name}
    IN  IF hits = {} THEN 0
        ELSE CHOOSE i \in hits : \A j \in hits : i <= j

\* The loop body of apply_action over one action's effects; the keys of a
\* dict are distinct, so the order of the loop does not matter.
ApplyEffects(stats, effects) ==
    [k \in DOMAIN stats \cup DOMAIN effects |->
        IF k \in DOMAIN effects
        THEN clamp(Get(stats, k, MISSING_DEFAULT) + effects[k])
        ELSE stats[k]]

\* Faulty variant: an unknown name falls back to the first catalog entry.
apply_action_fallback(stats, action_name) ==
    LET i == FindAction(action_name)
    IN  ApplyEffects(stats, ACTION_LIST[IF i = 0 THEN 1 ELSE i].effects)

\* Faulty variant: every stat absent from the effect map is reset to 50.
apply_action_reset_others(stats, action_name) ==
    LET i == FindAction(action_name)
    IN  IF i = 0 THEN stats
        ELSE [k \in DOMAIN stats \cup DOMAIN ACTION_LIST[i].effects |->
                IF k \in DOMAIN ACTION_LIST[i].effects
                THEN clamp(Get(stats, k, MISSING_DEFAULT) + ACTION_LIST[i].effects[k])
                ELSE MISSING_DEFAULT]

apply_action(stats, action_name) ==
    LET i == FindAction(action_name)
    IN  IF i = 0 THEN stats
        ELSE ApplyEffects(stats, ACTION_LIST[i].effects)

\* The keys passive_time_advance reads with stats[k]: a missing one raises
\* KeyError.
PassiveKeys(phase) ==
    IF phase \in {"Day", "Evening", "Night"} THEN {"Hunger", "Energy", "Stress"}
    ELSE IF phase = "Morning" THEN {"Energy", "Stress"}
    ELSE {}

\* The (key, delta) assignments of each branch.
PassiveDelta(phase) ==
    IF phase = "Day" THEN [Hunger |-> -12, Energy |-> -10, Stress |-> 4]
    ELSE IF phase = "Evening" THEN [Hunger |-> -18, Energy |-> -16, Stress |-> 6]
    ELSE IF phase = "Night" THEN [Hunger |-> -8, Energy |-> -8, Stress |-> 2]
    ELSE IF phase = "Morning" THEN [Energy |-> 4, Stress |-> -2]
    ELSE << >>

\* Faulty variant: the Evening branch applies the Day deltas.
passive_evening_as_day(stats, phase) ==
    LET d == PassiveDelta(IF phase = "Evening" THEN "Day" ELSE phase)
    IN  [k \in DOMAIN stats |->
            IF k \in DOMAIN d THEN clamp(stats[k] + d[k]) ELSE stats[k]]

\* Defined when PassiveKeys(phase) \subseteq DOMAIN stats.  Only the keys
\* the branch assigns go through clamp; the others are copied by dict(stats).
passive_time_advance(stats, phase) ==
    LET d == PassiveDelta(phase)
    IN  [k \in DOMAIN stats |->
            IF k \in DOMAIN d THEN clamp(stats[k] + d[k]) ELSE stats[k]]

\* The keys buddy_suggestion reads before it returns.
BuddyKeys(stats, stability) ==
    IF stability < 30 THEN {}
    ELSE IF "Hunger" \notin DOMAIN stats \/ stats["Hunger"] < 30 THEN {"Hunger"}
    ELSE IF "Energy" \notin DOMAIN stats \/ stats["Energy"] < 35
         THEN {"Hunger", "Energy"}
    ELSE IF "Stress" \notin DOMAIN stats \/ stats["Stress"] > 70
         THEN {"Hunger", "Energy", "Stress"}
    ELSE IF "Routine" \notin DOMAIN stats \/ stats["Routine"] < 40
         THEN {"Hunger", "Energy", "Stress", "Routine"}
    ELSE {"Hunger", "Energy", "Stress", "Routine", "Social"}

\* Faulty variant: the Energy test comes before the Hunger test.
buddy_energy_first(stats, stability) ==
    IF stability < 30 THEN BUDDY_MESSAGES["burnout"]
    ELSE IF stats["Energy"] < 35 THEN BUDDY_MESSAGES["low_energy"]
    ELSE IF stats["Hunger"] < 30 THEN BUDDY_MESSAGES["hungry"]
    ELSE IF stats["Stress"] > 70 THEN BUDDY_MESSAGES["high_stress"]
    ELSE IF stats["Routine"] < 40 THEN BUDDY_MESSAGES["low_routine"]
    ELSE IF stats["Social"] < 30 THEN BUDDY_MESSAGES["low_social"]
    ELSE BUDDY_MESSAGES["all_good"]

\* Defined when BuddyKeys(stats, stability) \subseteq DOMAIN stats.
buddy_suggestion(stats, stability) ==
    IF stability < 30 THEN BUDDY_MESSAGES["burnout"]
    ELSE IF stats["Hunger"] < 30 THEN BUDDY_MESSAGES["hungry"]
    ELSE IF stats["Energy"] < 35 THEN BUDDY_MESSAGES["low_energy"]
    ELSE IF stats["Stress"] > 70 THEN BUDDY_MESSAGES["high_stress"]
    ELSE IF stats["Routine"] < 40 THEN BUDDY_MESSAGES["low_routine"]
    ELSE IF stats["Social"] < 30 THEN BUDDY_MESSAGES["low_social"]
    ELSE BUDDY_MESSAGES["all_good"]

\* ------------------------------------------------------------------------
\* Persistence and history
\* ------------------------------------------------------------------------

\* user_data.json: absent, present but not loadable (open or json.load
\* raises), or holding a JSON object.
FileMissing == [kind |-> "missing", data |-> << >>]

FileUnreadable == [kind |-> "unreadable", data |-> << >>]

FileObject(d) == [kind |-> "object", data |-> d]

\* The record load_user builds when nothing is loaded; t is the reading of
\* datetime.utcnow().
DefaultUser(t) ==
    [name |-> "Alex", stats |-> DEFAULT_STATS, history |-> << >>,
     last_phase |-> DAY_PHASES[1], last_time |-> t, notes |-> ""]

\* if k not in d: d[k] = x
SetDefault(d, k, x) == IF k \in DOMAIN d THEN d ELSE Put(d, k, x)

load_user(f, t) ==
    IF f.kind = "object"
    THEN SetDefault(SetDefault(SetDefault(SetDefault(f.data,
            "stats", DEFAULT_STATS),
            "history", << >>),
            "last_phase", DAY_PHASES[1]),
            "last_time", t)
    ELSE DefaultUser(t)

\* json.dump(user, f): the file holds the whole record.
save_user(u) == FileObject(u)

\* Faulty variant: the list is never cut back to the cap.
record_history_uncapped(u, action_name, effects, t) ==
    LET entry == [time |-> t,
                  phase |-> Get(u, "last_phase", DAY_PHASES[1]),
                  action |-> action_name,
                  effects |-> effects]
    IN  Put(u, "history", <<entry>> \o Get(u, "history", << >>))

\* The user record after record_history(user, action_name, effects) at time t.
record_history(u, action_name, effects, t) ==
    LET entry == [time |-> t,
                  phase |-> Get(u, "last_phase", DAY_PHASES[1]),
                  action |-> action_name,
                  effects |-> effects]
    IN  Put(u, "history", Take(<<entry>> \o Get(u, "history", << >>), HISTORY_CAP))

\* ------------------------------------------------------------------------
\* State
\* ------------------------------------------------------------------------

VARIABLES
    user,    \* st.session_state.user
    file,    \* user_data.json
    now,     \* the clock; one tick per button click
    input,   \* engine harness: the input under test
    call     \* engine harness: the call made on it and what it returned

vars == <<user, file, now, input, call>>

NoInput == [kind |-> "none", stats |-> << >>, score |-> 0, file |-> FileMissing]

NoCall == [fn |-> "none", arg |-> "", stability |-> 0, raised |-> FALSE, out |-> 0]

\* ------------------------------------------------------------------------
\* The Streamlit session: first run without a data file, then one handler
\* per button click.  Every handler keeps all six stats present.
\* ------------------------------------------------------------------------

NotesChoices == {"", "call mum"}

Init ==
    /\ file = FileMissing
    /\ now = 0
    /\ user = load_user(FileMissing, 0)
    /\ input = NoInput
    /\ call = NoCall

\* Faulty variant: the record is saved before last_phase and last_time are
\* updated.
AdvanceTime_save_early(phase_choice) ==
    /\ now < MaxSteps
    /\ now' = now + 1
    /\ LET u1 == Put(user, "stats", passive_time_advance(user["stats"], phase_choice))
           u2 == Put(u1, "last_phase", phase_choice)
           u3 == Put(u2, "last_time", now')
       IN  /\ user' = u3
           /\ file' = save_user(u1)
    /\ UNCHANGED <<input, call>>

\* "Advance Time (pass to selected phase)"
AdvanceTime(phase_choice) ==
    /\ now < MaxSteps
    /\ now' = now + 1
    /\ LET u1 == Put(user, "stats", passive_time_advance(user["stats"], phase_choice))
           u2 == Put(u1, "last_phase", phase_choice)
           u3 == Put(u2, "last_time", now')
       IN  /\ user' = u3
           /\ file' = save_user(u3)
    /\ UNCHANGED <<input, call>>

\* One of the six activity buttons.
ActionButton(i) ==
    /\ now < MaxSteps
    /\ now' = now + 1
    /\ LET before == user["stats"]
           after == apply_action(user["stats"], ACTION_LIST[i].name)
           effects == [k \in DOMAIN after |-> after[k] - Get(before, k, 0)]
           u1 == Put(user, "stats", after)
           u2 == record_history(u1, ACTION_LIST[i].name, effects, now')
           u3 == Put(u2, "last_time", now')
       IN  /\ user' = u3
           /\ file' = save_user(u3)
    /\ UNCHANGED <<input, call>>

\* "Reset demo to defaults"
Reset ==
    /\ now < MaxSteps
    /\ now' = now + 1
    /\ user' = load_user(FileMissing, now')
    /\ file' = save_user(user')
    /\ UNCHANGED <<input, call>>

\* The four in-place updates of a quick-sim button.
QuickSim(stats, d) ==
    [k \in DOMAIN stats |-> IF k \in DOMAIN d THEN clamp(stats[k] + d[k]) ELSE stats[k]]

RoughDayDeltas == [Sleep |-> -30, Energy |-> -30, Hunger |-> -40, Stress |-> 30]

RecoveryDeltas == [Sleep |-> 30, Energy |-> 30, Hunger |-> 20, Stress |-> -25]

\* "Simulate rough day (fast)"
SimulateRoughDay ==
    /\ now < MaxSteps
    /\ now' = now + 1
    /\ LET u1 == Put(user, "stats", QuickSim(user["stats"], RoughDayDeltas))
           u2 == Put(u1, "last_time", now')
           u3 == record_history(u2, "Simulate rough day", RoughDayDeltas, now')
       IN  /\ user' = u3
           /\ file' = save_user(u3)
    /\ UNCHANGED <<input, call>>

\* "Simulate recovery (fast)"
SimulateRecovery ==
    /\ now < MaxSteps
    /\ now' = now + 1
    /\ LET u1 == Put(user, "stats", QuickSim(user["stats"], RecoveryDeltas))
           u2 == Put(u1, "last_time", now')
           u3 == record_history(u2, "Simulate recovery", RecoveryDeltas, now')
       IN  /\ user' = u3
           /\ file' = save_user(u3)
    /\ UNCHANGED <<input, call>>

\* "Save notes"
SaveNotes(notes) ==
    /\ now < MaxSteps
    /\ now' = now + 1
    /\ user' = Put(user, "notes", notes)
    /\ file' = save_user(user')
    /\ UNCHANGED <<input, call>>

Next ==
    \/ \E p \in 1..Len(DAY_PHASES) : AdvanceTime(DAY_PHASES[p])
    \/ \E i \in 1..Len(ACTION_LIST) : ActionButton(i)
    \/ Reset
    \/ SimulateRoughDay
    \/ SimulateRecovery
    \/ \E n \in NotesChoices : SaveNotes(n)

Spec == Init /\ [][Next]_vars

\* ------------------------------------------------------------------------
\* A session that starts from a record persisted by earlier sessions, its
\* history empty, one short of the cap, or at the cap.
\* ------------------------------------------------------------------------

\* n entries logged by earlier sessions, newest first: entry i was logged
\* at time -i, by the Socialize button on the default stats.
PreloadedHistory(n) ==
    [i \in 1..n |->
        [time |-> -i, phase |-> "Day", action |-> "Socialize",
         effects |-> [Sleep |-> 0, Energy |-> 0, Hunger |-> 0,
                      Stress |-> -6, Routine |-> 2, Social |-> 18]]]

HistoryPreloads == {0, HISTORY_CAP - 1, HISTORY_CAP}

InitHistory ==
    /\ \E n \in HistoryPreloads :
          file = save_user([DefaultUser(-1) EXCEPT !["history"] = PreloadedHistory(n)])
    /\ now = 0
    /\ user = load_user(file, 0)
    /\ input = NoInput
    /\ call = NoCall

SpecHistory == InitHistory /\ [][Next]_vars

\* ------------------------------------------------------------------------
\* The engine and load_user called on bounded inputs: one input is drawn,
\* one function is applied to it, and the call with its result is kept.
\* ------------------------------------------------------------------------

GridVals == {(k * HI) \div Grid : k \in 0..Grid}

\* Every stat on the grid.
GridVectors == [STAT_NAMES -> GridVals]

\* The defaults with one stat anywhere in its range.
SingleDeviations ==
    {[DEFAULT_STATS EXCEPT ![k] = x] : k \in STAT_NAMES, x \in LO..HI}

\* Each stat on either side of the threshold buddy_suggestion tests it with.
ThresholdVectors ==
    {[Sleep |-> 80, Energy |-> e, Hunger |-> h, Stress |-> s, Routine |-> r, Social |-> c] :
        e \in {34, 35}, h \in {29, 30}, s \in {70, 71}, r \in {39, 40}, c \in {29, 30}}

InRangeVectors == GridVectors \cup SingleDeviations \cup ThresholdVectors

\* A stats dict of a persisted record that lacks some of the keys.
PartialVectors ==
    {[k \in K |-> b[k]] :
        b \in {DEFAULT_STATS, [DEFAULT_STATS EXCEPT !["Stress"] = 21]},
        K \in (SUBSET STAT_NAMES) \ {STAT_NAMES}}

\* A stats dict of a persisted record with a value outside [0,100]:
\* load_user takes the stored "stats" as it is.
OutOfRangeVectors ==
    {[DEFAULT_STATS EXCEPT ![k] = x] : k \in STAT_NAMES, x \in {-5, 150}}

StatsInputs == InRangeVectors \cup PartialVectors \cup OutOfRangeVectors

\* Names no catalog entry has ("Sleep" is the catalog entry's short name).
UnknownNames == {"nonexistent", "Sleep", ""}

SampleEntry ==
    [time |-> 0, phase |-> "Day", action |-> "Socialize",
     effects |-> [Social |-> 18, Stress |-> -6, Routine |-> 2]]

USER_KEYS == {"name", "stats", "history", "last_phase", "last_time", "notes"}

\* Complete stored records, two values for each key.
FullObjects ==
    [name       : {"Alex", "Sam"},
     stats      : {DEFAULT_STATS, [DEFAULT_STATS EXCEPT !["Social"] = 68]},
     history    : {<< >>, <<SampleEntry>>},
     last_phase : {"Morning", "Night"},
     last_time  : {0, 7},
     notes      : {"", "call mum"}]

\* Every JSON object holding a subset of the six top-level keys.
StoredObjects ==
    {[k \in K |-> o[k]] : o \in FullObjects, K \in SUBSET USER_KEYS}

FileInputs ==
    {FileMissing, FileUnreadable} \cup {FileObject(d) : d \in StoredObjects}

\* The clock reading when load_user is called.
LoadTime == 9

EngineInputs ==
    {[kind |-> "stats", stats |-> v, score |-> 0, file |-> FileMissing] : v \in StatsInputs}
    \cup {[kind |-> "score", stats |-> << >>, score |-> n, file |-> FileMissing] : n \in LO..HI}
    \cup {[kind |-> "file", stats |-> << >>, score |-> 0, file |-> f] : f \in FileInputs}

InitEngine ==
    /\ file = FileMissing
    /\ now = 0
    /\ user = load_user(FileMissing, 0)
    /\ input \in EngineInputs
    /\ call = NoCall

CallApplyAction(action_name) ==
    /\ input.kind = "stats"
    /\ call = NoCall
    /\ call' = [fn |-> "apply_action", arg |-> action_name, stability |-> 0,
                raised |-> FALSE, out |-> apply_action(input.stats, action_name)]
    /\ UNCHANGED <<user, file, now, input>>

CallPassiveTimeAdvance(phase) ==
    /\ input.kind = "stats"
    /\ call = NoCall
    /\ call' = IF PassiveKeys(phase) \subseteq DOMAIN input.stats
               THEN [fn |-> "passive_time_advance", arg |-> phase, stability |-> 0,
                     raised |-> FALSE, out |-> passive_time_advance(input.stats, phase)]
               ELSE [fn |-> "passive_time_advance", arg |-> phase, stability |-> 0,
                     raised |-> TRUE, out |-> "KeyError"]
    /\ UNCHANGED <<user, file, now, input>>

CallComputeStability ==
    /\ input.kind = "stats"
    /\ call = NoCall
    /\ call' = [fn |-> "compute_lifestyle_stability", arg |-> "", stability |-> 0,
                raised |-> FALSE, out |-> compute_lifestyle_stability(input.stats)]
    /\ UNCHANGED <<user, file, now, input>>

\* The stability values buddy_suggestion is called with: the one the page
\* computes from the stats, and the ends and the burnout threshold.
StabilityChoices(stats) ==
    {compute_lifestyle_stability(stats), LO, 29, 30, HI}

CallBuddySuggestion ==
    \E stability \in StabilityChoices(input.stats) :
        /\ input.kind = "stats"
        /\ call = NoCall
        /\ call' = IF BuddyKeys(input.stats, stability) \subseteq DOMAIN input.stats
                   THEN [fn |-> "buddy_suggestion", arg |-> "", stability |-> stability,
                         raised |-> FALSE, out |-> buddy_suggestion(input.stats, stability)]
                   ELSE [fn |-> "buddy_suggestion", arg |-> "", stability |-> stability,
                         raised |-> TRUE, out |-> "KeyError"]
        /\ UNCHANGED <<user, file, now, input>>

CallGetLifeRank ==
    /\ input.kind = "score"
    /\ call = NoCall
    /\ call' = [fn |-> "get_life_rank", arg |-> "", stability |-> 0,
                raised |-> FALSE, out |-> get_life_rank(input.score)]
    /\ UNCHANGED <<user, file, now, input>>

CallLoadUser ==
    /\ input.kind = "file"
    /\ call = NoCall
    /\ call' = [fn |-> "load_user", arg |-> "", stability |-> 0,
                raised |-> FALSE, out |-> load_user(input.file, LoadTime)]
    /\ UNCHANGED <<user, file, now, input>>

NextEngine ==
    \/ \E a \in ActionNames \cup UnknownNames : CallApplyAction(a)
    \/ \E p \in 1..Len(DAY_PHASES) : CallPassiveTimeAdvance(DAY_PHASES[p])
    \/ CallComputeStability
    \/ CallBuddySuggestion
    \/ CallGetLifeRank
    \/ CallLoadUser

SpecEngine == InitEngine /\ [][NextEngine]_vars

\* ------------------------------------------------------------------------
\* Properties
\* ------------------------------------------------------------------------

\* v holds all six stats, each an integer in [0,100].
InRangeFull(v) ==
    /\ DOMAIN v = {"Sleep", "Energy", "Hunger", "Stress", "Routine", "Social"}
    /\ \A k \in DOMAIN v : v[k] \in 0..100

\* x limited to [0,100], written without the model's clamp.
Limit(x) == IF x < 0 THEN 0 ELSE IF x > 100 THEN 100 ELSE x

CatalogNames ==
    {"Sleep (Nap / Sleep)", "Eat (Meal / Snack)", "Exercise (Light)",
     "Socialize", "Study / Work", "Leisure (Relax)"}

\* C1: in a session started from the default stats, after any sequence of
\* activity buttons, Advance Time, the two quick simulations and Reset,
\* every one of the six stats is an integer in [0,100].
C1_StatsInRange ==
    /\ "stats" \in DOMAIN user
    /\ InRangeFull(user["stats"])

\* C1 witness: three rough days drive Hunger and Energy to the lower limit
\* and Stress to the upper one.
C1_Witness ==
    /\ now = 3
    /\ user["stats"]["Hunger"] = 0
    /\ user["stats"]["Energy"] = 0
    /\ user["stats"]["Stress"] = 100
    /\ Len(user["history"]) = 3

\* C2: apply_action with a name that no catalog entry has returns the
\* vector it was given, same keys and same values, and raises nothing.
C2_UnknownActionNoOp ==
    (call.fn = "apply_action" /\ call.arg \notin CatalogNames)
        => /\ ~call.raised
           /\ DOMAIN call.out = DOMAIN input.stats
           /\ \A k \in DOMAIN input.stats : call.out[k] = input.stats[k]

\* C2 witness: "nonexistent" applied to a vector away from the defaults.
C2_Witness ==
    /\ call.fn = "apply_action"
    /\ call.arg = "nonexistent"
    /\ input.stats = [DEFAULT_STATS EXCEPT !["Energy"] = 97]
    /\ call.out = [DEFAULT_STATS EXCEPT !["Energy"] = 97]

\* The effect maps as the catalog of the specification states them; 0 for a
\* stat the action does not mention.
C3_Delta(a, k) ==
    CASE a = "Sleep (Nap / Sleep)" ->
            (CASE k = "Sleep" -> 20 [] k = "Energy" -> 25 [] k = "Stress" -> -12
               [] OTHER -> 0)
      [] a = "Eat (Meal / Snack)" ->
            (CASE k = "Hunger" -> 35 [] k = "Energy" -> 6 [] k = "Stress" -> -4
               [] OTHER -> 0)
      [] a = "Exercise (Light)" ->
            (CASE k = "Energy" -> -15 [] k = "Stress" -> -8 [] k = "Routine" -> 4
               [] k = "Social" -> 1 [] OTHER -> 0)
      [] a = "Socialize" ->
            (CASE k = "Social" -> 18 [] k = "Stress" -> -6 [] k = "Routine" -> 2
               [] OTHER -> 0)
      [] a = "Study / Work" ->
            (CASE k = "Routine" -> 6 [] k = "Stress" -> 6 [] k = "Energy" -> -8
               [] OTHER -> 0)
      [] a = "Leisure (Relax)" ->
            (CASE k = "Stress" -> -10 [] k = "Energy" -> 6 [] k = "Routine" -> 1
               [] OTHER -> 0)

C4_Delta(p, k) ==
    CASE p = "Day" ->
            (CASE k = "Hunger" -> -12 [] k = "Energy" -> -10 [] k = "Stress" -> 4
               [] OTHER -> 0)
      [] p = "Evening" ->
            (CASE k = "Hunger" -> -18 [] k = "Energy" -> -16 [] k = "Stress" -> 6
               [] OTHER -> 0)
      [] p = "Night" ->
            (CASE k = "Hunger" -> -8 [] k = "Energy" -> -8 [] k = "Stress" -> 2
               [] OTHER -> 0)
      [] p = "Morning" ->
            (CASE k = "Energy" -> 4 [] k = "Stress" -> -2 [] OTHER -> 0)

\* C4: on an in-range vector passive_time_advance moves Hunger, Energy and
\* Stress by the phase's fixed deltas, limited to [0,100], and returns Sleep,
\* Routine and Social as they were; Evening on the defaults gives Hunger 32,
\* Energy 64, Stress 26, and Morning at Energy 100, Stress 0 leaves both.
C4_PassiveAdvanceDeltas ==
    (call.fn = "passive_time_advance" /\ InRangeFull(input.stats)
     /\ call.arg \in {"Morning", "Day", "Evening", "Night"})
        => /\ ~call.raised
           /\ DOMAIN call.out = DOMAIN input.stats
           /\ \A k \in {"Hunger", "Energy", "Stress"} :
                call.out[k] = Limit(input.stats[k] + C4_Delta(call.arg, k))
           /\ \A k \in {"Sleep", "Routine", "Social"} :
                call.out[k] = input.stats[k]
           /\ (call.arg = "Evening" /\ input.stats = DEFAULT_STATS)
                => (call.out["Hunger"] = 32 /\ call.out["Energy"] = 64
                    /\ call.out["Stress"] = 26)
           /\ (call.arg = "Morning" /\ input.stats["Energy"] = 100
               /\ input.stats["Stress"] = 0)
                => (call.out["Energy"] = 100 /\ call.out["Stress"] = 0)

\* C4 witness: Morning on a vector already at Energy 100 and Stress 0, both
\* deltas absorbed by the limits.
C4_Witness ==
    /\ call.fn = "passive_time_advance"
    /\ call.arg = "Morning"
    /\ InRangeFull(input.stats)
    /\ input.stats["Energy"] = 100
    /\ input.stats["Stress"] = 0
    /\ call.out = input.stats

\* Every value present in v is an integer in [0,100]; keys may be absent.
InRangePresent(v) ==
    /\ DOMAIN v \subseteq {"Sleep", "Energy", "Hunger", "Stress", "Routine", "Social"}
    /\ \A k \in DOMAIN v : v[k] \in 0..100

\* v[k], or 50 for an absent key.
C5_Val(v, k) == IF k \in DOMAIN v THEN v[k] ELSE 50

\* Ten times (Sleep + Energy + Hunger + Routine + Social)/5 - Stress/2.
C5_Tenths(v) ==
    2 * (C5_Val(v, "Sleep") + C5_Val(v, "Energy") + C5_Val(v, "Hunger")
         + C5_Val(v, "Routine") + C5_Val(v, "Social"))
    - 5 * C5_Val(v, "Stress")

\* C5: on a vector whose present values are integers in [0,100], absent keys
\* counting as 50, compute_lifestyle_stability returns an integer in [0,100]:
\* a nearest integer of (Sleep+Energy+Hunger+Routine+Social)/5 - Stress/2
\* (either neighbour of an exact half), limited to [0,100].
C5_StabilityFormula ==
    (call.fn = "compute_lifestyle_stability" /\ InRangePresent(input.stats))
        => /\ ~call.raised
           /\ call.out \in 0..100
           /\ \E q \in -51..101 :
                /\ 10 * q - C5_Tenths(input.stats) \in -5..5
                /\ call.out = Limit(q)

\* C5 witness: Sleep absent and Stress 21 give (50+80+50+70+50)/5 - 10.5 =
\* 49.5, an exact half, returned as 50.
C5_Witness ==
    /\ call.fn = "compute_lifestyle_stability"
    /\ DOMAIN input.stats = {"Energy", "Hunger", "Stress", "Routine", "Social"}
    /\ input.stats["Stress"] = 21
    /\ C5_Tenths(input.stats) = 495
    /\ call.out = 50

\* C6: compute_lifestyle_stability does not decrease when one of Sleep,
\* Energy, Hunger, Routine, Social is raised and does not increase when
\* Stress is raised, the other stats held fixed; this is the returned
\* (rounded, limited) integer, exact halves included.
C6_StabilityMonotone ==
    (call.fn = "compute_lifestyle_stability" /\ InRangeFull(input.stats))
        => \A k \in DOMAIN input.stats : \A x \in 0..100 :
              x >= input.stats[k]
                => IF k = "Stress"
                   THEN compute_lifestyle_stability([input.stats EXCEPT ![k] = x])
                            <= call.out
                   ELSE compute_lifestyle_stability([input.stats EXCEPT ![k] = x])
                            >= call.out

\* C6 witness: around an exact half: the defaults with Stress 21 score 55.5,
\* returned as 56; Stress 22 gives 55 and Stress 23 (54.5) gives 54, while
\* Hunger 55 (56.5) gives 56.
C6_Witness ==
    /\ call.fn = "compute_lifestyle_stability"
    /\ input.stats = [DEFAULT_STATS EXCEPT !["Stress"] = 21]
    /\ call.out = 56
    /\ compute_lifestyle_stability([input.stats EXCEPT !["Stress"] = 22]) = 55
    /\ compute_lifestyle_stability([input.stats EXCEPT !["Stress"] = 23]) = 54
    /\ compute_lifestyle_stability([input.stats EXCEPT !["Hunger"] = 55]) = 56

\* C7: get_life_rank gives every score of 0..100 exactly one label: 90 and
\* above Balanced, 70..89 Stable, 50..69 Unsettled, 30..49 Strained, 0..29
\* Burned Out.
C7_RankLadder ==
    (call.fn = "get_life_rank" /\ input.score \in 0..100)
        => /\ ~call.raised
           /\ call.out \in {"Balanced", "Stable", "Unsettled", "Strained", "Burned Out"}
           /\ (call.out = "Balanced") <=> (input.score \in 90..100)
           /\ (call.out = "Stable") <=> (input.score \in 70..89)
           /\ (call.out = "Unsettled") <=> (input.score \in 50..69)
           /\ (call.out = "Strained") <=> (input.score \in 30..49)
           /\ (call.out = "Burned Out") <=> (input.score \in 0..29)

\* C7 witness: the stability of the defaults after the Sleep action is 70,
\* ranked Stable.
C7_Witness ==
    /\ call.fn = "get_life_rank"
    /\ input.score = 70
    /\ input.score = compute_lifestyle_stability(
                        apply_action(DEFAULT_STATS, "Sleep (Nap / Sleep)"))
    /\ call.out = "Stable"

\* C8: on an in-range vector and a stability of 0..100 buddy_suggestion
\* returns the message of the first test that holds, in the order
\* stability < 30 (burnout), Hunger < 30 (hungry), Energy < 35 (low_energy),
\* Stress > 70 (high_stress), Routine < 40 (low_routine), Social < 30
\* (low_social), and all_good when none holds.
C8_FeedbackPriority ==
    (call.fn = "buddy_suggestion" /\ InRangeFull(input.stats)
     /\ call.stability \in 0..100)
        => LET v == input.stats
               t == << call.stability < 30, v["Hunger"] < 30, v["Energy"] < 35,
                       v["Stress"] > 70, v["Routine"] < 40, v["Social"] < 30, TRUE >>
               key == << "burnout", "hungry", "low_energy", "high_stress",
                         "low_routine", "low_social", "all_good" >>
           IN  /\ ~call.raised
               /\ \A i \in 1..7 :
                    (t[i] /\ \A j \in 1..(i - 1) : ~t[j])
                        => call.out = BUDDY_MESSAGES[key[i]]
               /\ Cardinality({i \in 1..7 : call.out = BUDDY_MESSAGES[key[i]]}) = 1

\* C8 witness: Hunger 29 with Energy, Routine and Social below their own
\* thresholds and Stress above its own, stability at least 30: the hungry
\* message wins.
C8_Witness ==
    /\ call.fn = "buddy_suggestion"
    /\ ~call.raised
    /\ call.stability >= 30
    /\ input.stats = [Sleep |-> 80, Energy |-> 34, Hunger |-> 29, Stress |-> 71,
                      Routine |-> 39, Social |-> 29]
    /\ call.out = BUDDY_MESSAGES["hungry"]

\* C9: load_user never fails and returns a record holding all six top-level
\* keys, whether the file is missing, unreadable or a JSON object lacking
\* any subset of them: a stored key keeps its stored value, and a missing
\* stats, history, last_phase or last_time holds its default (the default
\* stats, the empty history, Morning, the current time).
C9_LoadYieldsCompleteRecord ==
    (call.fn = "load_user")
        => /\ ~call.raised
           /\ DOMAIN call.out
                = {"name", "stats", "history", "last_phase", "last_time", "notes"}
           /\ \A k \in DOMAIN input.file.data :
                input.file.kind = "object" => call.out[k] = input.file.data[k]
           /\ ("stats" \notin DOMAIN input.file.data)
                => call.out["stats"] = [Sleep |-> 80, Energy |-> 80, Hunger |-> 50,
                                        Stress |-> 20, Routine |-> 70, Social |-> 50]
           /\ ("history" \notin DOMAIN input.file.data) => call.out["history"] = << >>
           /\ ("last_phase" \notin DOMAIN input.file.data)
                => call.out["last_phase"] = "Morning"
           /\ ("last_time" \notin DOMAIN input.file.data)
                => call.out["last_time"] = LoadTime

\* What load_user does guarantee: it never raises, a stored key keeps its
\* value, the four keys it back-fills are always present, and name and notes
\* are present exactly when they were stored or nothing was loaded.
LoadBackfillsFourKeys ==
    (call.fn = "load_user")
        => /\ ~call.raised
           /\ {"stats", "history", "last_phase", "last_time"} \subseteq DOMAIN call.out
           /\ input.file.kind # "object" => call.out = DefaultUser(LoadTime)
           /\ input.file.kind = "object"
                => /\ DOMAIN call.out = DOMAIN input.file.data
                        \cup {"stats", "history", "last_phase", "last_time"}
                   /\ \A k \in DOMAIN input.file.data : call.out[k] = input.file.data[k]

\* C10: for every phase and every vector of integers on the six stats,
\* values outside [0,100] included, every stat of the vector
\* passive_time_advance returns lies in [0,100].
C10_PassiveAdvanceClampsAll ==
    (call.fn = "passive_time_advance"
     /\ DOMAIN input.stats = {"Sleep", "Energy", "Hunger", "Stress", "Routine", "Social"}
     /\ call.arg \in {"Morning", "Day", "Evening", "Night"})
        => /\ ~call.raised
           /\ \A k \in DOMAIN call.out : call.out[k] \in 0..100

\* What passive_time_advance does guarantee on such a vector: the stats its
\* branch assigns are in [0,100], every other stat is returned as given.
PassiveAdvanceClampsAssigned ==
    (call.fn = "passive_time_advance"
     /\ DOMAIN input.stats = {"Sleep", "Energy", "Hunger", "Stress", "Routine", "Social"}
     /\ call.arg \in {"Morning", "Day", "Evening", "Night"})
        => /\ ~call.raised
           /\ \A k \in DOMAIN call.out :
                IF k \in {"Energy", "Stress"} \/ (k = "Hunger" /\ call.arg # "Morning")
                THEN call.out[k] \in 0..100
                ELSE call.out[k] = input.stats[k]

\* The step logged a history entry: the newest entry carries the time of
\* this step (the clock ticks once per step).
EntryLogged ==
    /\ user'["history"] # << >>
    /\ user'["history"][1].time = now'

\* C11: the entry a step logs holds, for each stat, the value after the
\* step minus the value before it (a stat the entry does not list counting
\* as 0), also when a stat saturates at 0 or 100.
C11_HistoryRecordsRealizedEffect ==
    [][EntryLogged
        => \A k \in DOMAIN user'["stats"] :
              Get(user'["history"][1].effects, k, 0)
                = user'["stats"][k] - user["stats"][k]]_vars

\* What the handlers do guarantee: an activity button logs the realized
\* differences; a quick simulation logs its fixed deltas whatever the
\* limits absorbed.
HistoryEffectsAsLogged ==
    [][EntryLogged
        => LET e == user'["history"][1]
           IN  IF e.action = "Simulate rough day"
               THEN e.effects = [Sleep |-> -30, Energy |-> -30, Hunger |-> -40, Stress |-> 30]
               ELSE IF e.action = "Simulate recovery"
               THEN e.effects = [Sleep |-> 30, Energy |-> 30, Hunger |-> 20, Stress |-> -25]
               ELSE \A k \in DOMAIN user'["stats"] :
                        e.effects[k] = user'["stats"][k] - user["stats"][k]]_vars

\* C12: the history never holds more than 200 entries and is ordered newest
\* first; a step that logs an entry puts it at the head, keeps the earlier
\* entries behind it in their order, and, when 200 were already held, drops
\* exactly the last one.
C12_HistoryCappedNewestFirst ==
    /\ [](/\ Len(user["history"]) <= 200
          /\ \A i \in 1..(Len(user["history"]) - 1) :
                user["history"][i].time > user["history"][i + 1].time)
    /\ [][EntryLogged
            => LET h == user["history"]
                   h2 == user'["history"]
               IN  /\ Len(h2) = (IF Len(h) >= 200 THEN 200 ELSE Len(h) + 1)
                   /\ \A i \in 2..Len(h2) : h2[i] = h[i - 1]]_vars

\* C12 witness: a history at the cap after a logged entry: the new entry at
\* the head, the former newest behind it, the former 199th now last.
C12_Witness ==
    /\ now >= 1
    /\ Len(user["history"]) = 200
    /\ user["history"][1].time = now
    /\ user["history"][2].time = -1
    /\ user["history"][200].time = -199

\* C13: once a button handler has completed, user_data.json holds a JSON
\* object equal to the in-memory user record in name, stats, history,
\* last_phase, last_time and notes, with no other key on either side.
C13_FileMatchesUserAfterStep ==
    (now > 0)
        => /\ file.kind = "object"
           /\ DOMAIN file.data = DOMAIN user
           /\ \A k \in {"name", "stats", "history", "last_phase", "last_time", "notes"} :
                k \in DOMAIN user /\ file.data[k] = user[k]

\* C13 witness: after an activity, a phase change and a note, none of them
\* still at its initial value, the file holds all of it.
C13_Witness ==
    /\ now = 3
    /\ user["notes"] = "call mum"
    /\ user["last_phase"] = "Evening"
    /\ Len(user["history"]) = 1
    /\ user["stats"] # DEFAULT_STATS
    /\ file.kind = "object"
    /\ file.data = user

====
